---- MODULE Spec2Model ----
(***************************************************************************)
(* Matrix-free Conjugate Gradient solvers of demo_poisson_matrix_free:     *)
(*   - action_A, the matrix-free operator application (shared function ui) *)
(*   - cg, the bare loop over PETSc vectors                                *)
(*   - CG.solve driven by CustomKSP.converged and the converged callback   *)
(* Scalars are exact rationals <<numerator, denominator>>; a denominator   *)
(* of 0 stands for a non-finite float (inf or nan).  The mesh is a 1D      *)
(* chain of NCells two-node cells, so the assembled form a(u, v) is the    *)
(* sum of the cell matrices [[1, -1], [-1, 1]].                            *)
(***************************************************************************)
EXTENDS Integers, Sequences, FiniteSets, TLC

\* ---- bounds of the model ------------------------------------------------
NCells == 2
MaxB == 1
MaxIter == 2
MaxGuess == 1
MaxMag == 30000

Cells == 1 .. NCells
NDofs == NCells + 1
Dofs == 1 .. NDofs

\* the MPI ranks of the distributed run
Ranks == {0, 1}

\* ---- scalar arithmetic --------------------------------------------------
\* Scalars are kept within MaxMag in numerator and denominator; a result
\* outside is OutOfRange, and a solve step that produces one is not followed.
Abs(n) == IF n < 0 THEN -n ELSE n

RECURSIVE GCD(_, _)
GCD(a, c) == IF c = 0 THEN a ELSE GCD(c, a % c)

Zero == <<0, 1>>
One == <<1, 1>>
NonFinite == <<0, 0>>
OutOfRange == <<0, -1>>

IsFinite(a) == a[2] # 0

InRangeS(a) == a[2] >= 0

Clip(a) == IF Abs(a[1]) > MaxMag \/ a[2] > MaxMag THEN OutOfRange ELSE a

Rat(n, d) == LET g == GCD(Abs(n), d) IN Clip(<<n \div g, d \div g>>)

RNeg(a) == <<-a[1], a[2]>>

RAbs(a) == <<Abs(a[1]), a[2]>>

RMul(a, c) ==
  IF ~InRangeS(a) \/ ~InRangeS(c) THEN OutOfRange
  ELSE IF ~IsFinite(a) \/ ~IsFinite(c) THEN NonFinite
  ELSE LET g1 == GCD(Abs(a[1]), c[2])
           g2 == GCD(Abs(c[1]), a[2])
       IN Clip(<<(a[1] \div g1) * (c[1] \div g2),
                 (a[2] \div g2) * (c[2] \div g1)>>)

RAdd(a, c) ==
  IF ~InRangeS(a) \/ ~InRangeS(c) THEN OutOfRange
  ELSE IF ~IsFinite(a) \/ ~IsFinite(c) THEN NonFinite
  ELSE LET g == GCD(a[2], c[2])
       IN Rat(a[1] * (c[2] \div g) + c[1] * (a[2] \div g), (a[2] \div g) * c[2])

RSub(a, c) == RAdd(a, RNeg(c))

\* a < c on floats: every comparison with a non-finite nan is False
RLess(a, c) ==
  /\ InRangeS(a) /\ InRangeS(c) /\ IsFinite(a) /\ IsFinite(c)
  /\ a[1] * c[2] < c[1] * a[2]

RLeq(a, c) ==
  /\ InRangeS(a) /\ InRangeS(c) /\ IsFinite(a) /\ IsFinite(c)
  /\ a[1] * c[2] <= c[1] * a[2]

\* IEEE division, as numpy scalars perform it: x / 0 is non-finite
RDiv(a, c) ==
  IF ~InRangeS(a) \/ ~InRangeS(c) THEN OutOfRange
  ELSE IF ~IsFinite(a) \/ ~IsFinite(c) \/ c[1] = 0 THEN NonFinite
  ELSE RMul(a, IF c[1] > 0 THEN <<c[2], c[1]>> ELSE <<-c[2], -c[1]>>)

\* `/` on two Python floats raises ZeroDivisionError for a zero divisor
PyDivRaises_numpy(den) == FALSE
PyDivRaises(den) == den = Zero

\* ---- vectors ------------------------------------------------------------
ZeroVec == [i \in Dofs |-> Zero]

VecFinite(v) == \A i \in Dofs : IsFinite(v[i])

VecInRange(v) == \A i \in DOMAIN v : InRangeS(v[i])

RECURSIVE SumTo(_, _)
SumTo(f, n) == IF n = 0 THEN Zero ELSE RAdd(SumTo(f, n - 1), f[n])

dot(u, v) == SumTo([i \in Dofs |-> RMul(u[i], v[i])], NDofs)

\* x.axpy(a, p): x <- x + a p
axpy(x, a, p) == [i \in Dofs |-> RAdd(x[i], RMul(a, p[i]))]

\* p.aypx(beta, r): p <- beta p + r
aypx(p, bta, r) == [i \in Dofs |-> RAdd(RMul(bta, p[i]), r[i])]

\* b - y creates a new vector
VecSub(u, v) == [i \in Dofs |-> RSub(u[i], v[i])]

\* src.copy(dst): the values of both vectors afterwards
Copy_reversed(src, dst) == [src |-> dst, dst |-> dst]
Copy(src, dst) == [src |-> src, dst |-> src]

\* ---- state --------------------------------------------------------------
VARIABLES
  bcdofs,     \* dofs: the constrained (Dirichlet) degrees of freedom of bc
  ui,         \* coefficient function of the linear form M, shared by all calls
  b,          \* right-hand side vector after lifting
  b_entry,    \* the value of b when the solvers were first handed it
  x,          \* solution vector, updated in place
  r, p, y,    \* residual, search direction, A p
  r_norm2, r0_norm2, eps, alpha, beta, k,
  pc,         \* position of the running solve: idle, alpha, update, test,
              \* converged, done
  outcome,    \* running, returned, raised
  error,      \* the exception that ended the solve, or none
  ret,        \* cg: the returned k; CG.solve: ksp.getIterationNumber() at the end
  brk,        \* cg left through break / the KSP reason is CONVERGED_RTOL
  solver,     \* which variant the running call is: none, cg, ksp
  x0, rtol, max_iter,   \* arguments of the running call
  napply,     \* applications of action_A in the running call
  resids,     \* r_norm2 after each update of the running call
  denoms,     \* divisors of every alpha and beta division of the running call
  its, reason, res_hist,   \* KSP object: iteration number, converged reason,
                           \* convergence history (squares of the logged norms)
  phase,      \* first or second call of the session
  first,      \* the machine state at the end of the first call
  run,        \* the distributed run: partition of the mesh and arguments of cg
  proc,       \* the distributed run: each rank's vectors, scalars and position
  net,        \* ghost-update messages in flight between the ranks
  coll,       \* each rank's contributions to the all-reduces of the dot products
  shell,      \* the shell matrix A: its sizes and what Poisson.create made of it
  plugin      \* the CG plugin object: its attribute self.vectors and the work
              \* vectors PETSc has handed out

solve_vars == <<ui, b, x, r, p, y, r_norm2, r0_norm2, eps, alpha, beta, k, pc,
                outcome, error, ret, brk, solver, x0, rtol, max_iter, napply,
                resids, denoms, its, reason, res_hist>>

dist_vars == <<run, proc, net, coll>>

obj_vars == <<shell, plugin>>

vars == <<bcdofs, b_entry, solve_vars, phase, first, dist_vars, obj_vars>>

\* the solve state as one record, so that a handler is a function on it
St ==
  [ui |-> ui, b |-> b, x |-> x, r |-> r, p |-> p, y |-> y,
   r_norm2 |-> r_norm2, r0_norm2 |-> r0_norm2, eps |-> eps,
   alpha |-> alpha, beta |-> beta, k |-> k, pc |-> pc, outcome |-> outcome,
   error |-> error, ret |-> ret, brk |-> brk, solver |-> solver, x0 |-> x0,
   rtol |-> rtol, max_iter |-> max_iter, napply |-> napply,
   resids |-> resids, denoms |-> denoms, its |-> its, reason |-> reason,
   res_hist |-> res_hist]

\* every scalar the solve holds, and the ratios its tests compute, are in range
InRange(s) ==
  /\ \A v \in {s.ui, s.b, s.x, s.r, s.p, s.y} : VecInRange(v)
  /\ \A a \in {s.r_norm2, s.r0_norm2, s.eps, s.alpha, s.beta} : InRangeS(a)
  /\ \A j \in 1 .. Len(s.resids) : InRangeS(s.resids[j])
  /\ \A j \in 1 .. Len(s.denoms) : InRangeS(s.denoms[j])
  /\ \A j \in 1 .. Len(s.res_hist) : InRangeS(s.res_hist[j])
  /\ InRangeS(RDiv(s.r_norm2, s.r0_norm2))
  /\ s.res_hist # <<>> => InRangeS(RDiv(s.r_norm2, s.res_hist[1]))

Assign(s) ==
  /\ InRange(s)
  /\ ui' = s.ui /\ b' = s.b /\ x' = s.x /\ r' = s.r /\ p' = s.p /\ y' = s.y
  /\ r_norm2' = s.r_norm2 /\ r0_norm2' = s.r0_norm2 /\ eps' = s.eps
  /\ alpha' = s.alpha /\ beta' = s.beta /\ k' = s.k /\ pc' = s.pc
  /\ outcome' = s.outcome /\ error' = s.error /\ ret' = s.ret /\ brk' = s.brk
  /\ solver' = s.solver /\ x0' = s.x0 /\ rtol' = s.rtol
  /\ max_iter' = s.max_iter /\ napply' = s.napply /\ resids' = s.resids
  /\ denoms' = s.denoms /\ its' = s.its /\ reason' = s.reason
  /\ res_hist' = s.res_hist

\* ---- the finite element collaborators -----------------------------------
\* uD interpolated at the dofs (the Dirichlet values of bc)
uD == [i \in Dofs |-> <<i, 1>>]

\* the contribution of cell c (dofs c and c + 1) to entry i of the assembled
\* linear form M(v) = a(u, v), a = inner(grad(u), grad(v)) * dx
CellContribution(c, i, u) ==
  IF i = c THEN RSub(u[c], u[c + 1])
  ELSE IF i = c + 1 THEN RSub(u[c + 1], u[c])
  ELSE Zero

RECURSIVE CellSum(_, _, _)
CellSum(i, u, n) ==
  IF n = 0 THEN Zero ELSE RAdd(CellSum(i, u, n - 1), CellContribution(n, i, u))

\* fem.petsc.assemble_vector(fem.form(M)) with coefficient u
assemble_vector(u) == [i \in Dofs |-> CellSum(i, u, NCells)]

\* fem.set_bc(v, [bc], scale): v[dof] <- scale * uD[dof] on the dofs of bc
set_bc(v, dofs, scale) ==
  [i \in Dofs |-> IF i \in dofs THEN RMul(scale, uD[i]) ELSE v[i]]

\* action_A(x) on the shared function whose vector holds u: the new content of
\* ui, the returned y and the argument x as the call leaves it (one process:
\* the ghost updates move nothing)
action_A_stale(u, dofs, v) ==
  [ui |-> v, y |-> set_bc(assemble_vector(u), dofs, Zero), x |-> v]
action_A_unconstrained(u, dofs, v) ==
  LET cp == Copy(v, u)
  IN [ui |-> cp.dst, y |-> assemble_vector(cp.dst), x |-> cp.src]
action_A(u, dofs, v) ==
  LET cp == Copy(v, u)
  IN [ui |-> cp.dst, y |-> set_bc(assemble_vector(cp.dst), dofs, Zero),
      x |-> cp.src]

\* ---- cg: the bare loop --------------------------------------------------
\* while k < max_iter
LoopCond_inclusive(kk, mi) == kk <= mi
LoopCond(kk, mi) == kk < mi

\* abs(r_norm2 / r0_norm2) < eps, on a non-zero r0_norm2
ConvergenceTest(rn, r0n, rt) == RLess(RAbs(RDiv(rn, r0n)), RMul(rt, rt))

Raise(s, e) == [s EXCEPT !.pc = "done", !.outcome = "raised", !.error = e]

Return(s, value, broke) ==
  [s EXCEPT !.pc = "done", !.outcome = "returned", !.ret = value, !.brk = broke]

\* cg(action_A, b, x, max_iter, rtol) down to the first test of the while loop
cg_entry(s, dofs, guess, rt, mi) ==
  LET ydup == Copy(s.b, ZeroVec)
      aa == action_A(s.ui, dofs, guess)
      r1 == VecSub(ydup.src, aa.y)
      rn == dot(r1, r1)
      s1 == [s EXCEPT !.solver = "cg", !.x0 = guess, !.rtol = rt,
                      !.max_iter = mi, !.b = ydup.src, !.ui = aa.ui,
                      !.x = aa.x, !.y = aa.y, !.r = r1, !.p = r1,
                      !.r_norm2 = rn, !.r0_norm2 = rn, !.eps = RMul(rt, rt),
                      !.alpha = Zero, !.beta = Zero, !.k = 0, !.napply = 1,
                      !.resids = <<>>, !.denoms = <<>>, !.pc = "alpha",
                      !.outcome = "running", !.error = "none", !.ret = 0,
                      !.brk = FALSE]
  IN IF LoopCond(0, mi) THEN s1 ELSE Return(s1, 0, FALSE)

\* k += 1; y = action_A(p); alpha = r_norm2 / p.dot(y)
cg_alpha(s, dofs) ==
  LET aa == action_A(s.ui, dofs, s.p)
      d == dot(s.p, aa.y)
      s1 == [s EXCEPT !.k = s.k + 1, !.ui = aa.ui, !.y = aa.y, !.p = aa.x,
                      !.napply = s.napply + 1, !.denoms = Append(s.denoms, d)]
  IN IF PyDivRaises(d) THEN Raise(s1, "ZeroDivisionError")
     ELSE [s1 EXCEPT !.alpha = RDiv(s.r_norm2, d), !.pc = "update"]

\* x.axpy(alpha, p); r.axpy(-alpha, y); r_norm2_new = r.dot(r);
\* beta = r_norm2_new / r_norm2; r_norm2 = r_norm2_new
cg_update_stale_norm(s) ==
  LET x1 == axpy(s.x, s.alpha, s.p)
      r1 == axpy(s.r, RNeg(s.alpha), s.y)
      r_norm2_new == dot(r1, r1)
      s1 == [s EXCEPT !.x = x1, !.r = r1,
                      !.denoms = Append(s.denoms, s.r_norm2)]
  IN IF PyDivRaises(s.r_norm2) THEN Raise(s1, "ZeroDivisionError")
     ELSE [s1 EXCEPT !.beta = RDiv(r_norm2_new, s.r_norm2),
                     !.resids = Append(s.resids, s.r_norm2), !.pc = "test"]
cg_update_same_sign(s) ==
  LET x1 == axpy(s.x, s.alpha, s.p)
      r1 == axpy(s.r, s.alpha, s.y)
      r_norm2_new == dot(r1, r1)
      s1 == [s EXCEPT !.x = x1, !.r = r1,
                      !.denoms = Append(s.denoms, s.r_norm2)]
  IN IF PyDivRaises(s.r_norm2) THEN Raise(s1, "ZeroDivisionError")
     ELSE [s1 EXCEPT !.beta = RDiv(r_norm2_new, s.r_norm2),
                     !.r_norm2 = r_norm2_new,
                     !.resids = Append(s.resids, r_norm2_new), !.pc = "test"]
cg_update(s) ==
  LET x1 == axpy(s.x, s.alpha, s.p)
      r1 == axpy(s.r, RNeg(s.alpha), s.y)
      r_norm2_new == dot(r1, r1)
      s1 == [s EXCEPT !.x = x1, !.r = r1,
                      !.denoms = Append(s.denoms, s.r_norm2)]
  IN IF PyDivRaises(s.r_norm2) THEN Raise(s1, "ZeroDivisionError")
     ELSE [s1 EXCEPT !.beta = RDiv(r_norm2_new, s.r_norm2),
                     !.r_norm2 = r_norm2_new,
                     !.resids = Append(s.resids, r_norm2_new), !.pc = "test"]

\* the convergence test, then p.aypx(beta, r) and the test of the while loop
cg_test_zero_based(s) ==
  IF PyDivRaises(s.r0_norm2) THEN Raise(s, "ZeroDivisionError")
  ELSE IF ConvergenceTest(s.r_norm2, s.r0_norm2, s.rtol)
       THEN Return(s, s.k - 1, TRUE)
  ELSE LET s1 == [s EXCEPT !.p = aypx(s.p, s.beta, s.r), !.pc = "alpha"]
       IN IF LoopCond(s.k, s.max_iter) THEN s1 ELSE Return(s1, s.k, FALSE)
cg_test(s) ==
  IF PyDivRaises(s.r0_norm2) THEN Raise(s, "ZeroDivisionError")
  ELSE IF ConvergenceTest(s.r_norm2, s.r0_norm2, s.rtol)
       THEN Return(s, s.k, TRUE)
  ELSE LET s1 == [s EXCEPT !.p = aypx(s.p, s.beta, s.r), !.pc = "alpha"]
       IN IF LoopCond(s.k, s.max_iter) THEN s1 ELSE Return(s1, s.k, FALSE)

\* ---- CG.solve under the KSP driver --------------------------------------
\* converged(ksp, iter, r_norm): norms are carried as their squares, so
\* r_norm / r0_norm < rtol reads  r_norm^2 / r0_norm^2 < rtol^2  for rtol > 0;
\* r0_norm is a numpy scalar, the division follows IEEE and never raises
converged(rt, mi, hist, iter, r_norm_sq) ==
  IF iter > mi THEN "DIVERGED_MAX_IT"
  ELSE IF RLess(Zero, rt) /\ RLess(RDiv(r_norm_sq, hist[1]), RMul(rt, rt))
       THEN "CONVERGED_RTOL"
  ELSE "ITERATING"

\* KSPSolve resets the iteration number and the reason, then CG.solve runs down
\* to the first test of its while loop
CG_solve_entry(s, dofs, guess, rt, mi) ==
  LET ycopy == Copy(s.b, s.y)
      aa == action_A(s.ui, dofs, guess)
      r1 == VecSub(ycopy.src, aa.y)
      rn == dot(r1, r1)
  IN [s EXCEPT !.solver = "ksp", !.x0 = guess, !.rtol = rt, !.max_iter = mi,
               !.its = 0, !.reason = "ITERATING", !.b = ycopy.src,
               !.ui = aa.ui, !.x = aa.x, !.y = aa.y, !.r = r1, !.p = r1,
               !.r_norm2 = rn, !.r0_norm2 = rn, !.eps = RMul(rt, rt),
               !.alpha = Zero, !.beta = Zero, !.k = 0, !.napply = 1,
               !.resids = <<>>, !.denoms = <<>>, !.pc = "converged",
               !.outcome = "running", !.error = "none", !.ret = 0,
               !.brk = FALSE]

\* CustomKSP.converged(ksp, r), the condition of the while loop
CustomKSP_converged(s) ==
  LET kk == s.its
      r_norm_sq == dot(s.r, s.r)
      hist == Append(s.res_hist, r_norm_sq)
      rsn == converged(s.rtol, s.max_iter, hist, kk, r_norm_sq)
      s1 == [s EXCEPT !.res_hist = hist]
  IN IF rsn = "ITERATING"
     THEN [s1 EXCEPT !.its = kk + 1, !.pc = "alpha"]
     ELSE Return([s1 EXCEPT !.reason = rsn], kk, rsn = "CONVERGED_RTOL")

\* A.mult(p, y); alpha = r_norm2 / p.dot(y)
CG_solve_alpha(s, dofs) ==
  LET aa == action_A(s.ui, dofs, s.p)
      yy == Copy(aa.y, s.y).dst
      d == dot(s.p, yy)
      s1 == [s EXCEPT !.ui = aa.ui, !.y = yy, !.p = aa.x,
                      !.napply = s.napply + 1, !.denoms = Append(s.denoms, d)]
  IN IF PyDivRaises(d) THEN Raise(s1, "ZeroDivisionError")
     ELSE [s1 EXCEPT !.alpha = RDiv(s.r_norm2, d), !.pc = "update"]

\* x.axpy(alpha, p); r.axpy(-alpha, y); r_norm2_new = r.dot(r);
\* beta = r_norm2_new / r_norm2; r_norm2 = r_norm2_new; p.aypx(beta, r)
CG_solve_update(s) ==
  LET x1 == axpy(s.x, s.alpha, s.p)
      r1 == axpy(s.r, RNeg(s.alpha), s.y)
      r_norm2_new == dot(r1, r1)
      s1 == [s EXCEPT !.x = x1, !.r = r1,
                      !.denoms = Append(s.denoms, s.r_norm2)]
  IN IF PyDivRaises(s.r_norm2) THEN Raise(s1, "ZeroDivisionError")
     ELSE LET bta == RDiv(r_norm2_new, s.r_norm2)
          IN [s1 EXCEPT !.beta = bta, !.r_norm2 = r_norm2_new,
                        !.resids = Append(s.resids, r_norm2_new),
                        !.p = aypx(s.p, bta, r1), !.pc = "converged"]

\* ---- the session: lifting, then two solves ------------------------------
VecAdd(u, v) == [i \in Dofs |-> RAdd(u[i], v[i])]

\* b <- b - A x_bc: set_bc(ui, scale=-1), assemble M into b, zero the bc rows
lifting(bL, dofs) ==
  LET ui1 == set_bc(ZeroVec, dofs, <<-1, 1>>)
      b1 == VecAdd(bL, assemble_vector(ui1))
  IN [ui |-> ui1, b |-> set_bc(b1, dofs, Zero)]

\* the boundary dofs located for bc: one end of the chain, or both
BcChoices == {{1}, {1, NDofs}}

\* assembled load vectors L(v)
Loads == [Dofs -> {<<n, 1>> : n \in 0 .. MaxB}]

\* initial guesses a caller passes: a constant function
Guesses == {[i \in Dofs |-> <<g, 1>>] : g \in 0 .. MaxGuess}

\* relative tolerances a caller passes
Rtols == {<<0, 1>>, <<1, 2>>, <<3, 2>>}

\* no solve has been called yet
SolveIdle ==
  /\ x = ZeroVec /\ r = ZeroVec /\ p = ZeroVec /\ y = ZeroVec
  /\ r_norm2 = Zero /\ r0_norm2 = Zero /\ eps = Zero
  /\ alpha = Zero /\ beta = Zero /\ k = 0
  /\ pc = "idle" /\ outcome = "none" /\ error = "none" /\ ret = 0
  /\ brk = FALSE /\ solver = "none"
  /\ x0 = ZeroVec /\ rtol = Zero /\ max_iter = 0
  /\ napply = 0 /\ resids = <<>> /\ denoms = <<>>
  /\ its = 0 /\ reason = "ITERATING" /\ res_hist = <<>>
  /\ phase = "first"
  /\ first = St

\* the shell matrix and the plugin object are not in use
ObjIdle ==
  /\ shell = [M |-> NDofs, N |-> NDofs, state |-> "none"]
  /\ plugin = [state |-> "none"]

Init ==
  /\ ObjIdle
  /\ bcdofs \in BcChoices
  /\ \E bL \in Loads :
       /\ ui = lifting(bL, bcdofs).ui
       /\ b = lifting(bL, bcdofs).b
  /\ b_entry = b
  /\ SolveIdle
  /\ run = [split |-> 1, owner |-> 0, guess |-> 0, rtol |-> Zero, max_iter |-> 0]
  /\ proc = [q \in Ranks |-> [pc |-> "idle"]]
  /\ net = {}
  /\ coll = [q \in Ranks |-> <<>>]

Frame == UNCHANGED <<bcdofs, b_entry, phase, first, dist_vars, obj_vars>>

\* iter = cg(action_A, b, x, max_iter=mi, rtol=rt), on a fresh guess or on the
\* vector the previous solve left
Call_cg ==
  /\ pc = "idle"
  /\ \E guess \in Guesses \cup {x}, rt \in Rtols, mi \in 0 .. MaxIter :
       Assign(cg_entry(St, bcdofs, guess, rt, mi))
  /\ Frame

Cg_alpha ==
  /\ solver = "cg" /\ pc = "alpha"
  /\ Assign(cg_alpha(St, bcdofs))
  /\ Frame

Cg_update ==
  /\ solver = "cg" /\ pc = "update"
  /\ Assign(cg_update(St))
  /\ Frame

Cg_test ==
  /\ solver = "cg" /\ pc = "test"
  /\ Assign(cg_test(St))
  /\ Frame

\* solver.setTolerances(rtol=rt, max_it=mi), which takes 0 <= rt < 1 only;
\* solver.solve(b, uh.vector) on a fresh fem.Function(V), whose vector is zero
KspRtols == {rt \in Rtols : RLess(rt, One)}

Call_ksp ==
  /\ pc = "idle"
  /\ \E rt \in KspRtols, mi \in 0 .. MaxIter :
       Assign(CG_solve_entry(St, bcdofs, ZeroVec, rt, mi))
  /\ Frame

Ksp_converged ==
  /\ solver = "ksp" /\ pc = "converged"
  /\ Assign(CustomKSP_converged(St))
  /\ Frame

Ksp_alpha ==
  /\ solver = "ksp" /\ pc = "alpha"
  /\ Assign(CG_solve_alpha(St, bcdofs))
  /\ Frame

Ksp_update ==
  /\ solver = "ksp" /\ pc = "update"
  /\ Assign(CG_solve_update(St))
  /\ Frame

\* the first solve has ended (returned or raised): the session goes on
NextCall ==
  /\ pc = "done" /\ phase = "first"
  /\ first' = St
  /\ phase' = "second"
  /\ pc' = "idle"
  /\ UNCHANGED <<bcdofs, b_entry, ui, b, x, r, p, y, r_norm2, r0_norm2, eps,
                 alpha, beta, k, outcome, error, ret, brk, solver, x0, rtol,
                 max_iter, napply, resids, denoms, its, reason, res_hist,
                 dist_vars, obj_vars>>

Next ==
  \/ Call_cg \/ Cg_alpha \/ Cg_update \/ Cg_test
  \/ Call_ksp \/ Ksp_converged \/ Ksp_alpha \/ Ksp_update
  \/ NextCall

Spec == Init /\ [][Next]_vars

\* ---- a whole cg call as one function ------------------------------------
\* the solve state before any solve: ui as the lifting left it
Pristine(bv, dofs) ==
  [ui |-> set_bc(ZeroVec, dofs, <<-1, 1>>), b |-> bv, x |-> ZeroVec,
   r |-> ZeroVec, p |-> ZeroVec, y |-> ZeroVec, r_norm2 |-> Zero,
   r0_norm2 |-> Zero, eps |-> Zero, alpha |-> Zero, beta |-> Zero, k |-> 0,
   pc |-> "idle", outcome |-> "none", error |-> "none", ret |-> 0,
   brk |-> FALSE, solver |-> "none", x0 |-> ZeroVec, rtol |-> Zero,
   max_iter |-> 0, napply |-> 0, resids |-> <<>>, denoms |-> <<>>, its |-> 0,
   reason |-> "ITERATING", res_hist |-> <<>>]

\* the statements of cg from position s.pc to the end of the call
RECURSIVE cg_run(_, _)
cg_run(s, dofs) ==
  IF s.pc = "alpha" THEN cg_run(cg_alpha(s, dofs), dofs)
  ELSE IF s.pc = "update" THEN cg_run(cg_update(s), dofs)
  ELSE IF s.pc = "test" THEN cg_run(cg_test(s), dofs)
  ELSE s

\* cg(action_A, b, x, max_iter, rtol) called before any other solve
cg_alone(bv, dofs, guess, rt, mi) ==
  cg_run(cg_entry(Pristine(bv, dofs), dofs, guess, rt, mi), dofs)

\* what a caller sees of an ended solve
Seen(s) == <<s.outcome, s.error, s.ret, s.x, s.b>>

\* ---- the distributed run of cg: two MPI ranks ---------------------------
\* Rank 0 holds the cells 1 .. run.split, rank 1 the others; the dof between
\* them is owned by run.owner and is a ghost on the other rank.  A rank's
\* vector has its owned entries and its ghost entries (the local form).
Other(q) == 1 - q

LocalCells(q) == IF q = 0 THEN 1 .. run.split ELSE (run.split + 1) .. NCells

Local(q) == UNION {{c, c + 1} : c \in LocalCells(q)}

OwnerOf(i) ==
  IF i <= run.split THEN 0 ELSE IF i = run.split + 1 THEN run.owner ELSE 1

Owned(q) == {i \in Local(q) : OwnerOf(i) = q}

Ghosts(q) == Local(q) \ Owned(q)

Restrict(v, q) == [i \in Local(q) |-> v[i]]

\* the forward scatter of v: each owned entry goes to the rank ghosting it
FwdMsgs(vec, q, v) ==
  {[vec |-> vec, src |-> q, dst |-> Other(q), dof |-> i, val |-> v[i]] :
     i \in Owned(q) \cap Ghosts(Other(q))}

\* the reverse scatter of v: each ghost entry goes to its owner
RevMsgs(vec, q, v) ==
  {[vec |-> vec, src |-> q, dst |-> OwnerOf(i), dof |-> i, val |-> v[i]] :
     i \in Ghosts(q)}

Inbox(vec, q) == {m \in net : m.vec = vec /\ m.dst = q}

\* ghostUpdate(addv=INSERT, mode=FORWARD), receiving half
ghostUpdate_insert_skipped(v, q, inbox) == v
ghostUpdate_insert(v, q, inbox) ==
  [i \in Local(q) |->
     IF i \in Ghosts(q) THEN (CHOOSE m \in inbox : m.dof = i).val ELSE v[i]]

\* ghostUpdate(addv=ADD, mode=REVERSE), receiving half
ghostUpdate_add(v, q, inbox) ==
  [i \in Local(q) |->
     IF \E m \in inbox : m.dof = i
     THEN RAdd(v[i], (CHOOSE m \in inbox : m.dof = i).val) ELSE v[i]]

\* a vector operation of PETSc acts on the owned entries alone
OnOwned(q, new, old) ==
  [i \in Local(q) |-> IF i \in Owned(q) THEN new[i] ELSE old[i]]

\* the local part of u.dot(v), before the all-reduce
dot_local(u, v, q) ==
  SumTo([i \in Dofs |-> IF i \in Owned(q) THEN RMul(u[i], v[i]) ELSE Zero], NDofs)

RECURSIVE CellSumOver(_, _, _)
CellSumOver(i, u, cells) ==
  IF cells = {} THEN Zero
  ELSE LET c == CHOOSE c \in cells : TRUE
       IN RAdd(CellSumOver(i, u, cells \ {c}), CellContribution(c, i, u))

\* assemble_vector on one rank: the cells of the rank, into owned and ghost
\* entries of a new vector, no ghost accumulation
assemble_local(u, q) == [i \in Local(q) |-> CellSumOver(i, u, LocalCells(q))]

\* fem.set_bc on the local form: owned and ghost entries of the dofs of bc
set_bc_local(v, dofs, scale) ==
  [i \in DOMAIN v |-> IF i \in dofs THEN RMul(scale, uD[i]) ELSE v[i]]

\* what a step of a rank does: its new state, the messages it sends and
\* takes, and its contribution to an all-reduce (none: <<>>)
Res(s, send, taken, part) ==
  [s |-> s, send |-> send, taken |-> taken, part |-> part]

\* action_A(v), first half: v.copy(ui.vector) and the sends of the forward
\* ghost update of ui.vector
A_begin(s, q, argname, v, after) ==
  LET ui1 == OnOwned(q, v, s.ui)
  IN Res([s EXCEPT !.ui = ui1, !.arg = argname, !.after = after, !.pc = "fwd"],
         FwdMsgs("ui", q, ui1), {}, <<>>)

\* the forward ghost update of ui.vector completes
A_forward(s, q, inbox) ==
  Res([s EXCEPT !.ui = ghostUpdate_insert(s.ui, q, inbox), !.pc = "assemble"],
      {}, inbox, <<>>)

\* y = assemble_vector(M); set_bc on the local form of y; the sends of the
\* reverse ghost update of y
A_assemble_owned_bc(s, q, dofs) ==
  LET y1 == set_bc_local(assemble_local(s.ui, q), dofs \cap Owned(q), Zero)
  IN Res([s EXCEPT !.y = y1, !.pc = "rev"], RevMsgs("y", q, y1), {}, <<>>)
A_assemble(s, q, dofs) ==
  LET y1 == set_bc_local(assemble_local(s.ui, q), dofs, Zero)
  IN Res([s EXCEPT !.y = y1, !.pc = "rev"], RevMsgs("y", q, y1), {}, <<>>)

\* the reverse ghost update of y completes; action_A returns y
A_reverse(s, q, inbox) ==
  Res([s EXCEPT !.y = ghostUpdate_add(s.y, q, inbox), !.pc = s.after],
      {}, inbox, <<>>)

\* x.axpy(a, p) and p.aypx(bta, r) on the owned entries of a rank
axpy_local(u, a, v, q) ==
  [i \in Local(q) |-> IF i \in Owned(q) THEN RAdd(u[i], RMul(a, v[i])) ELSE u[i]]

aypx_local(u, bta, v, q) ==
  [i \in Local(q) |-> IF i \in Owned(q) THEN RAdd(RMul(bta, u[i]), v[i]) ELSE u[i]]

\* cg on rank q: y = b.duplicate(); b.copy(y); y = action_A(x) begins
cg_rank_entry(s, q) ==
  A_begin([s EXCEPT !.outcome = "running"], q, "x", s.x, "residual")

\* r = b - y; p = r.duplicate(); r.copy(p); the sends of p.ghostUpdate; the
\* ghost entries of a duplicate are zero
cg_rank_residual(s, q) ==
  LET r1 == [i \in Local(q) |->
               IF i \in Owned(q) THEN RSub(s.b[i], s.y[i]) ELSE Zero]
  IN Res([s EXCEPT !.r = r1, !.p = r1, !.pc = "p_fwd"],
         FwdMsgs("p", q, r1), {}, <<>>)

\* p.ghostUpdate completes; r.dot(r) begins
cg_rank_p_ghost(s, q, inbox) ==
  Res([s EXCEPT !.p = ghostUpdate_insert(s.p, q, inbox), !.pc = "rr0"],
      {}, inbox, <<dot_local(s.r, s.r, q)>>)

\* the test of the while loop: k += 1 and y = action_A(p) begins, or return k
cg_rank_loop(s, q) ==
  IF LoopCond(s.k, s.max_iter)
  THEN A_begin([s EXCEPT !.k = s.k + 1], q, "p", s.p, "alpha")
  ELSE Res(Return(s, s.k, FALSE), {}, {}, <<>>)

\* r_norm2 = r.dot(r) completes; r0_norm2 = r_norm2; eps = rtol**2; k = 0
cg_rank_start(s, q, rn) ==
  cg_rank_loop([s EXCEPT !.r_norm2 = rn, !.r0_norm2 = rn,
                         !.eps = RMul(s.rtol, s.rtol), !.k = 0], q)

\* action_A(p) has returned y; p.dot(y) begins
cg_rank_alpha(s, q) == Res([s EXCEPT !.pc = "py"], {}, {}, <<dot_local(s.p, s.y, q)>>)

\* p.dot(y) completes with d; alpha; x.axpy; r.axpy; r.dot(r) begins
cg_rank_update(s, q, d) ==
  IF PyDivRaises(d) THEN Res(Raise(s, "ZeroDivisionError"), {}, {}, <<>>)
  ELSE LET a == RDiv(s.r_norm2, d)
           x1 == axpy_local(s.x, a, s.p, q)
           r1 == axpy_local(s.r, RNeg(a), s.y, q)
       IN Res([s EXCEPT !.alpha = a, !.x = x1, !.r = r1, !.pc = "rr"],
              {}, {}, <<dot_local(r1, r1, q)>>)

\* r.dot(r) completes with rn; beta; r_norm2; the convergence test; p.aypx
cg_rank_test(s, q, rn) ==
  IF PyDivRaises(s.r_norm2) THEN Res(Raise(s, "ZeroDivisionError"), {}, {}, <<>>)
  ELSE LET s1 == [s EXCEPT !.beta = RDiv(rn, s.r_norm2), !.r_norm2 = rn]
       IN IF PyDivRaises(s.r0_norm2)
          THEN Res(Raise(s1, "ZeroDivisionError"), {}, {}, <<>>)
          ELSE IF ConvergenceTest(rn, s.r0_norm2, s.rtol)
               THEN Res(Return(s1, s.k, TRUE), {}, {}, <<>>)
          ELSE cg_rank_loop(
                 [s1 EXCEPT !.p = aypx_local(s.p, s1.beta, s.r, q)], q)

\* every scalar a rank holds is in range
ProcInRange(s) ==
  /\ \A v \in {s.ui, s.b, s.x, s.r, s.p, s.y} :
       \A i \in DOMAIN v : InRangeS(v[i])
  /\ \A a \in {s.r_norm2, s.r0_norm2, s.eps, s.alpha, s.beta} : InRangeS(a)
  /\ InRangeS(RDiv(s.r_norm2, s.r0_norm2))

\* load vectors of the distributed run: a point load
DistLoads ==
  {[i \in Dofs |-> IF i = j THEN <<n, 1>> ELSE Zero] : j \in Dofs, n \in 0 .. MaxB}

\* the distributed run after the lifting of b (whose last step is a forward
\* ghost update): every rank holds its part of ui and of b, ghosts current;
\* the dofs of bc may include the dof shared by the two ranks
InitDist ==
  /\ ObjIdle
  /\ run \in [split : 1 .. (NCells - 1), owner : Ranks, guess : 0 .. MaxGuess,
              rtol : Rtols, max_iter : 0 .. MaxIter]
  /\ bcdofs \in BcChoices \cup {{run.split + 1}, {1, run.split + 1}}
  /\ \E bL \in DistLoads :
       /\ ui = lifting(bL, bcdofs).ui
       /\ b = lifting(bL, bcdofs).b
  /\ b_entry = b
  /\ SolveIdle
  /\ proc = [q \in Ranks |->
       [pc |-> "idle", after |-> "none", arg |-> "none",
        ui |-> Restrict(ui, q), b |-> Restrict(b, q),
        x |-> [i \in Local(q) |-> <<run.guess, 1>>],
        r |-> Restrict(ZeroVec, q), p |-> Restrict(ZeroVec, q),
        y |-> Restrict(ZeroVec, q),
        r_norm2 |-> Zero, r0_norm2 |-> Zero, eps |-> Zero, alpha |-> Zero,
        beta |-> Zero, k |-> 0, outcome |-> "none", error |-> "none",
        ret |-> 0, brk |-> FALSE, rtol |-> run.rtol,
        max_iter |-> run.max_iter]]
  /\ net = {}
  /\ coll = [q \in Ranks |-> <<>>]

\* rank q takes the step res
Step(q, res) ==
  /\ ProcInRange(res.s)
  /\ res.part # <<>> => InRangeS(res.part[1])
  /\ proc' = [proc EXCEPT ![q] = res.s]
  /\ net' = (net \ res.taken) \cup res.send
  /\ coll' = IF res.part = <<>> THEN coll
             ELSE [coll EXCEPT ![q] = Append(@, res.part[1])]
  /\ UNCHANGED <<bcdofs, b_entry, solve_vars, phase, first, run, obj_vars>>

\* the messages a ghost update of rank q waits for have arrived
ForwardArrived(vec, q) ==
  \A i \in Ghosts(q) : \E m \in Inbox(vec, q) : m.dof = i

ReverseArrived(vec, q) ==
  \A i \in Owned(q) \cap Ghosts(Other(q)) : \E m \in Inbox(vec, q) : m.dof = i

\* the all-reduce rank q waits in: every rank has contributed to it
AllReduced(q) == \A t \in Ranks : Len(coll[t]) >= Len(coll[q])

AllReduce_local(q) == coll[q][Len(coll[q])]
AllReduce(q) == LET n == Len(coll[q]) IN RAdd(coll[0][n], coll[1][n])

Rank_call ==
  \E q \in Ranks :
    /\ proc[q].pc = "idle"
    /\ Step(q, cg_rank_entry(proc[q], q))

Rank_forward ==
  \E q \in Ranks :
    /\ proc[q].pc = "fwd" /\ ForwardArrived("ui", q)
    /\ Step(q, A_forward(proc[q], q, Inbox("ui", q)))

Rank_assemble ==
  \E q \in Ranks :
    /\ proc[q].pc = "assemble"
    /\ Step(q, A_assemble(proc[q], q, bcdofs))

Rank_reverse ==
  \E q \in Ranks :
    /\ proc[q].pc = "rev" /\ ReverseArrived("y", q)
    /\ Step(q, A_reverse(proc[q], q, Inbox("y", q)))

Rank_residual ==
  \E q \in Ranks :
    /\ proc[q].pc = "residual"
    /\ Step(q, cg_rank_residual(proc[q], q))

Rank_p_ghost ==
  \E q \in Ranks :
    /\ proc[q].pc = "p_fwd" /\ ForwardArrived("p", q)
    /\ Step(q, cg_rank_p_ghost(proc[q], q, Inbox("p", q)))

Rank_start ==
  \E q \in Ranks :
    /\ proc[q].pc = "rr0" /\ AllReduced(q)
    /\ Step(q, cg_rank_start(proc[q], q, AllReduce(q)))

Rank_alpha ==
  \E q \in Ranks :
    /\ proc[q].pc = "alpha"
    /\ Step(q, cg_rank_alpha(proc[q], q))

Rank_update ==
  \E q \in Ranks :
    /\ proc[q].pc = "py" /\ AllReduced(q)
    /\ Step(q, cg_rank_update(proc[q], q, AllReduce(q)))

Rank_test ==
  \E q \in Ranks :
    /\ proc[q].pc = "rr" /\ AllReduced(q)
    /\ Step(q, cg_rank_test(proc[q], q, AllReduce(q)))

NextDist ==
  \/ Rank_call \/ Rank_forward \/ Rank_assemble \/ Rank_reverse
  \/ Rank_residual \/ Rank_p_ghost \/ Rank_start \/ Rank_alpha
  \/ Rank_update \/ Rank_test

SpecDist == InitDist /\ [][NextDist]_vars

\* the vector the owners hold
Glob_ui == [i \in Dofs |-> proc[OwnerOf(i)].ui[i]]

Glob_x == [i \in Dofs |-> proc[OwnerOf(i)].x[i]]

Glob_p == [i \in Dofs |-> proc[OwnerOf(i)].p[i]]

\* the argument of the running action_A of rank q, as the owners hold it
Glob_arg(q) == IF proc[q].arg = "x" THEN Glob_x ELSE Glob_p

\* ---- claims -------------------------------------------------------------
Ended == pc = "done"

\* r_norm2 / r0_norm2 < rtol^2 on the value v of r_norm2
BelowTol(v) == RLess(RDiv(v, r0_norm2), RMul(rtol, rtol))

\* b - A x for the current x
TrueResidual == VecSub(b, action_A(ui, bcdofs, x).y)

\* C1: in cg, after each update of x, r and r_norm2 the loop is left through
\* the break exactly when r_norm2 / r0_norm2 < rtol^2; the count then returned
\* is the 1-based index of that pass, and x holds that pass's update (its true
\* residual b - A x is the one that passed the test).
C1_StopIffBelowTolerance ==
  (solver = "cg" /\ pc # "idle") =>
    /\ \A j \in 1 .. Len(resids) :
         (j < Len(resids) \/ pc # "test") =>
           (BelowTol(resids[j]) <=>
              (j = Len(resids) /\ Ended /\ outcome = "returned" /\ brk))
    /\ (Ended /\ outcome = "returned" /\ brk) =>
         /\ ret = Len(resids) /\ ret = k /\ ret >= 1
         /\ dot(TrueResidual, TrueResidual) = resids[ret]

C1_Witness ==
  /\ solver = "cg" /\ Ended /\ outcome = "returned" /\ brk
  /\ ret = 2 /\ rtol = <<1, 2>>

\* C2: cg runs at most max_iter passes: 0 <= k <= max_iter, action_A has been
\* applied k + 1 times, a returned count is the number of passes, max_iter = 0
\* returns 0 with x untouched, and every step of a running call decreases
\* C2_Measure, so the call ends.
C2_Measure ==
  3 * (max_iter - k) + (IF pc = "update" THEN 2 ELSE IF pc = "test" THEN 1 ELSE 0)

C2_Bounded ==
  (solver = "cg" /\ pc # "idle") =>
    /\ 0 <= k /\ k <= max_iter
    /\ napply = k + 1
    /\ C2_Measure >= 0
    /\ (pc = "alpha" => k < max_iter)
    /\ (Ended /\ outcome = "returned") => (ret = k /\ napply = ret + 1)
    /\ (Ended /\ max_iter = 0) => (outcome = "returned" /\ ret = 0 /\ x = x0)

C2_AtMostMaxIterPasses ==
  /\ []C2_Bounded
  /\ [][(solver = "cg" /\ pc \in {"alpha", "update", "test"})
          => C2_Measure' < C2_Measure]_vars

C2_Witness ==
  /\ solver = "cg" /\ Ended /\ outcome = "returned" /\ ~brk
  /\ max_iter = 2 /\ ret = 2 /\ napply = 3

\* C3: cg and CG.solve, given the same b, initial guess, rtol and max_iter,
\* end with the same iteration count and the same x.
C3_SameCountAndVector ==
  (/\ phase = "second" /\ Ended
   /\ first.solver = "cg" /\ solver = "ksp"
   /\ first.x0 = x0 /\ first.rtol = rtol /\ first.max_iter = max_iter)
  => (first.outcome = outcome /\ first.ret = ret /\ first.x = x)

\* C4 as claimed: whenever cg terminates, r_norm2 <= rtol^2 * r0_norm2.
C4_TerminationBelowTolerance ==
  (solver = "cg" /\ Ended /\ outcome = "returned") =>
    RLeq(r_norm2, RMul(RMul(rtol, rtol), r0_norm2))

\* C4 as amended: whenever cg terminates through the break of its convergence
\* test, the r_norm2 it holds is dot(r, r) and r_norm2 <= rtol^2 * r0_norm2.
C4_BreakBelowTolerance ==
  (solver = "cg" /\ Ended /\ outcome = "returned" /\ brk) =>
    /\ r_norm2 = dot(r, r)
    /\ RLeq(r_norm2, RMul(RMul(rtol, rtol), r0_norm2))

C4_Witness ==
  /\ solver = "cg" /\ Ended /\ outcome = "returned" /\ brk
  /\ r_norm2 # Zero /\ rtol = <<1, 2>>

\* C5: two cg calls with the same max_iter that return the same value either
\* both converged or both did not.
C5_CapDistinguishable ==
  (/\ phase = "second" /\ Ended
   /\ first.solver = "cg" /\ solver = "cg"
   /\ first.outcome = "returned" /\ outcome = "returned"
   /\ first.max_iter = max_iter /\ first.ret = ret)
  => (first.brk = brk)

\* C6: in cg and in CG.solve every alpha and beta applied is finite, x, r and p
\* stay finite, and a solve that met a zero divisor in alpha or beta has ended
\* by raising ZeroDivisionError instead of returning.
C6_BreakdownIsRaised ==
  /\ VecFinite(x) /\ VecFinite(r) /\ VecFinite(p)
  /\ IsFinite(alpha) /\ IsFinite(beta)
  /\ (\E j \in 1 .. Len(denoms) : denoms[j] = Zero) =>
       (pc \in {"done", "idle"} /\ outcome = "raised"
        /\ error = "ZeroDivisionError")

C6_Witness ==
  /\ phase = "second" /\ Ended
  /\ first.solver = "cg" /\ first.outcome = "raised" /\ first.k = 2
  /\ first.x # first.x0
  /\ solver = "ksp" /\ outcome = "raised" /\ denoms[Len(denoms)] = Zero

\* C7: a second cg call on the x a converged call left, with the same rtol and
\* max_iter, ends by returning after 0 or 1 passes.
C7_RerunStopsAtOnce ==
  (/\ phase = "second" /\ pc # "idle"
   /\ first.solver = "cg" /\ first.outcome = "returned" /\ first.brk
   /\ solver = "cg" /\ x0 = first.x
   /\ rtol = first.rtol /\ max_iter = first.max_iter)
  => (k <= 1 /\ outcome # "raised")

\* C8: cg never changes b; a cg call that failed (raised, or returned at the
\* cap) leaves x and r advanced by the same updates (r = b - A x); and a cg
\* call on a fresh guess after a failed one ends as the same call would have
\* ended had no solve run before, whatever action_A left in ui.
C8_FailedSolveIsLocal ==
  /\ b = b_entry
  /\ (solver = "cg" /\ Ended /\ (outcome = "raised" \/ ~brk)) =>
       r = TrueResidual
  /\ (/\ phase = "second" /\ Ended /\ solver = "cg" /\ x0 \in Guesses
      /\ first.solver = "cg" /\ (first.outcome = "raised" \/ ~first.brk)) =>
       Seen(St) = Seen(cg_alone(b_entry, bcdofs, x0, rtol, max_iter))

C8_Witness ==
  /\ phase = "second" /\ Ended /\ solver = "cg" /\ x0 \in Guesses
  /\ first.solver = "cg" /\ first.outcome = "raised"
  /\ first.ui # Pristine(b_entry, bcdofs).ui /\ first.x # first.x0
  /\ x0 # first.x0 /\ outcome = "returned" /\ brk

\* C9: on every rank the vector action_A produces is zero at every constrained
\* index, owned or ghost, from the zeroing on: the reverse ghost accumulation
\* adds nothing to a constrained owned entry.
C9_ConstrainedRowsZero ==
  \A q \in Ranks :
    proc[q].pc \in {"rev", "residual", "alpha", "py"} =>
      \A i \in Local(q) \cap bcdofs : proc[q].y[i] = Zero

C9_Witness ==
  \E q \in Ranks :
    /\ proc[q].pc = "alpha"
    /\ \E i \in Owned(q) \cap Ghosts(Other(q)) \cap bcdofs :
         /\ assemble_local(proc[Other(q)].ui, Other(q))[i] # Zero
         /\ proc[q].y[i] = Zero

\* C10: when a rank assembles inside action_A, every entry of ui it reads,
\* ghosts included, is the value the owner holds in ui and in the argument
\* (x or p); when a rank starts a dot product with y, no contribution to y is
\* still in flight and its owned entries of y are those of action_A applied to
\* the argument as a whole; the r of the first r.dot(r) is b - A x.
C10_GhostsCurrentWhenRead ==
  \A q \in Ranks :
    /\ proc[q].pc = "assemble" =>
         \A i \in Local(q) :
           proc[q].ui[i] = Glob_ui[i] /\ proc[q].ui[i] = Glob_arg(q)[i]
    /\ proc[q].pc \in {"residual", "alpha"} =>
         /\ Inbox("y", q) = {}
         /\ \A i \in Owned(q) :
              proc[q].y[i] = action_A(ZeroVec, bcdofs, Glob_arg(q)).y[i]
    /\ proc[q].pc = "p_fwd" =>
         \A i \in Owned(q) :
           proc[q].r[i] = VecSub(b, action_A(ZeroVec, bcdofs, Glob_x).y)[i]

C10_Witness ==
  \E q \in Ranks :
    /\ proc[q].pc = "assemble" /\ proc[q].arg = "p" /\ proc[q].k = 2
    /\ \E i \in Ghosts(q) : proc[q].p[i] # Glob_p[i]

\* ---- the ranks of a distributed run, compared ---------------------------
\* rank q is inside pass k >= 1 of the while loop
InPass(q) ==
  proc[q].k >= 1 /\ proc[q].pc \in {"fwd", "assemble", "rev", "alpha", "py", "rr"}

\* rank q waits in a collective operation that is not complete
Blocked(q) ==
  \/ proc[q].pc = "fwd" /\ ~ForwardArrived("ui", q)
  \/ proc[q].pc = "rev" /\ ~ReverseArrived("y", q)
  \/ proc[q].pc = "p_fwd" /\ ~ForwardArrived("p", q)
  \/ proc[q].pc \in {"rr0", "py", "rr"} /\ ~AllReduced(q)

SameLayout(u, v) == Len(u) = Len(v)

\* a vector of the function space with one entry less or one more
Resized(v) == {v, SubSeq(v, 1, Len(v) - 1), Append(v, Zero)}

\* cg: y = b.duplicate(); b.copy(y)
cg_args_duplicate(s, guess) ==
  [s EXCEPT !.solver = "cg", !.x0 = guess, !.x = guess, !.y = Copy(s.b, s.b).dst,
            !.napply = 0, !.pc = "apply", !.outcome = "running",
            !.error = "none"]

\* cg: y = action_A(x), whose x.copy(ui.vector) is the first vector operation
cg_args_apply(s, dofs) ==
  IF ~SameLayout(s.x, s.ui) THEN Raise(s, "PETSc.Error")
  ELSE LET aa == action_A(s.ui, dofs, s.x)
       IN [s EXCEPT !.ui = aa.ui, !.y = aa.y, !.x = aa.x, !.napply = 1,
                    !.pc = "subtract"]

\* cg: r = b - y; from here on all vectors have the layout of b
cg_args_residual(s) ==
  IF ~SameLayout(s.b, s.y) THEN Raise(s, "PETSc.Error")
  ELSE LET r1 == VecSub(s.b, s.y)
       IN [s EXCEPT !.r = r1, !.p = r1, !.r_norm2 = dot(r1, r1),
                    !.r0_norm2 = dot(r1, r1), !.pc = "done",
                    !.outcome = "accepted"]

\* Poisson.create(A): M, N = A.getSize(); assert M == N
Poisson_create(sh) ==
  [sh EXCEPT !.state = IF sh.M = sh.N THEN "created" ELSE "AssertionError"]

\* the sizes given to A.setSizes
ShellSizes == (NDofs - 1) .. (NDofs + 1)

InitArgs ==
  /\ shell \in [M : ShellSizes, N : ShellSizes, state : {"none"}]
  /\ plugin = [state |-> "none"]
  /\ bcdofs \in BcChoices
  /\ \E bL \in DistLoads :
       /\ ui = lifting(bL, bcdofs).ui
       /\ b \in Resized(lifting(bL, bcdofs).b)
  /\ b_entry = b
  /\ SolveIdle
  /\ run = [split |-> 1, owner |-> 0, guess |-> 0, rtol |-> Zero, max_iter |-> 0]
  /\ proc = [q \in Ranks |-> [pc |-> "idle"]]
  /\ net = {}
  /\ coll = [q \in Ranks |-> <<>>]

Args_create ==
  /\ shell.state = "none"
  /\ shell' = Poisson_create(shell)
  /\ UNCHANGED <<bcdofs, b_entry, solve_vars, phase, first, dist_vars, plugin>>

Args_call ==
  /\ pc = "idle"
  /\ \E guess \in UNION {Resized(g) : g \in Guesses} :
       Assign(cg_args_duplicate(St, guess))
  /\ Frame

Args_apply ==
  /\ pc = "apply"
  /\ Assign(cg_args_apply(St, bcdofs))
  /\ Frame

Args_residual ==
  /\ pc = "subtract"
  /\ Assign(cg_args_residual(St))
  /\ Frame

NextArgs == Args_create \/ Args_call \/ Args_apply \/ Args_residual

SpecArgs == InitArgs /\ [][NextArgs]_vars

\* C13: a cg call whose b or x does not have the layout of the function space
\* ends rejected with no operator application made and x unchanged, and
\* Poisson.create rejects a shell matrix that is not square.
C13_RejectedBeforeArithmetic ==
  /\ (pc = "done" /\ (~SameLayout(b, ZeroVec) \/ ~SameLayout(x0, ZeroVec))) =>
       (outcome = "raised" /\ napply = 0 /\ x = x0)
  /\ (shell.state # "none" /\ shell.M # shell.N) => shell.state = "AssertionError"

\* C14: in every state a solve reaches, whatever ui holds (the lifting values
\* or the argument of an earlier call), action_A applied to a vector v leaves
\* v as it is and returns what it returns on the ui the lifting left and on a
\* zero ui; the y a pass of cg holds is that value for its p.
C14_ActionIsFunction ==
  /\ \A v \in Guesses \cup {x, p, r} :
       LET aa == action_A(ui, bcdofs, v)
       IN /\ aa.x = v
          /\ aa.y = action_A(Pristine(b_entry, bcdofs).ui, bcdofs, v).y
          /\ aa.y = action_A(ZeroVec, bcdofs, v).y
  /\ (solver = "cg" /\ pc = "update") =>
       (y = action_A(ZeroVec, bcdofs, p).y /\ ui = p)

C14_Witness ==
  /\ solver = "cg" /\ pc = "update" /\ k = 2
  /\ ui # Pristine(b_entry, bcdofs).ui /\ ui # x /\ ui # ZeroVec
  /\ y # ZeroVec

\* C15: in CG.solve at most max_iter update steps of x are made, the iteration
\* number reported at the end is the number of update steps made and is at
\* most max_iter, and a solve that ends with DIVERGED_MAX_IT has made exactly
\* max_iter update steps.
C15_PluginWithinCap ==
  (solver = "ksp" /\ pc # "idle") =>
    /\ Len(resids) <= max_iter
    /\ (Ended /\ outcome = "returned") =>
         /\ ret = its /\ ret = Len(resids) /\ ret <= max_iter
         /\ reason = "DIVERGED_MAX_IT" => Len(resids) = max_iter

\* a step inside a running solve (not the call that starts one)
InSolve == pc \in {"alpha", "update", "test", "converged"}

\* C16 as claimed: cg and CG.solve never change b, and the only vectors a step
\* of a solve writes are x (by x.axpy(alpha, p) alone), r, p and y.
C16_OnlySolveVectorsWritten ==
  /\ [](b = b_entry)
  /\ [][InSolve =>
          /\ b' = b /\ ui' = ui
          /\ (x' # x => (pc = "update" /\ x' = axpy(x, alpha', p)))]_vars

\* C16 as amended: cg and CG.solve never change b; a step of a solve writes x
\* by x.axpy(alpha, p) alone, and besides r, p and y it writes ui.vector, into
\* which action_A copies the p of the pass.
C16_FrameWithOperator ==
  /\ [](b = b_entry)
  /\ [][b' = b]_vars
  /\ [][InSolve =>
          /\ (x' # x => (pc = "update" /\ x' = axpy(x, alpha', p)))
          /\ (ui' # ui => (pc = "alpha" /\ ui' = p))]_vars

C16_Witness ==
  /\ solver = "ksp" /\ Ended /\ reason = "DIVERGED_MAX_IT"
  /\ x # x0 /\ ui # x0 /\ b = b_entry /\ b # ZeroVec

\* the step after a solve: fem.set_bc(y_local, [bc], scale=1.0) on the solution
set_bc_values(xv, dofs) == set_bc(xv, dofs, One)

\* C17: b being zero at every constrained index, throughout cg r and p are
\* zero there and x keeps there the values of the initial guess; after the
\* return set_bc(scale=1.0) puts uD there and leaves the other entries.
C17_ConstrainedEntriesUntouched ==
  (solver = "cg" /\ pc # "idle" /\ \A i \in bcdofs : b[i] = Zero) =>
    /\ \A i \in bcdofs : r[i] = Zero /\ p[i] = Zero /\ x[i] = x0[i]
    /\ (Ended /\ outcome = "returned") =>
         \A i \in Dofs :
           set_bc_values(x, bcdofs)[i] = IF i \in bcdofs THEN uD[i] ELSE x[i]

C17_Witness ==
  /\ solver = "cg" /\ Ended /\ outcome = "returned" /\ k = 2
  /\ bcdofs # {} /\ \A i \in bcdofs : b[i] = Zero
  /\ x # x0 /\ p # ZeroVec
  /\ set_bc_values(x, bcdofs) # x

\* the head of a loop pass of cg (the body is about to run) or its return
AtLoopHeadOrReturn ==
  solver = "cg" /\ (pc = "alpha" \/ (Ended /\ outcome = "returned"))

\* C18: in exact arithmetic, at the head of every loop pass of cg and at its
\* return, r = b - action_A(x) for the current x and r_norm2 = dot(r, r) for
\* the current r; and the pass that advances x by alpha * p advances r by
\* -alpha * y with the same alpha, y being action_A(p).
C18_RecurrencesConsistent ==
  /\ [](AtLoopHeadOrReturn => (r = TrueResidual /\ r_norm2 = dot(r, r)))
  /\ [][(solver = "cg" /\ pc = "update") =>
          /\ x' = axpy(x, alpha, p)
          /\ r' = axpy(r, RNeg(alpha), y)
          /\ y = action_A(ui, bcdofs, p).y]_vars

C18_Witness ==
  /\ solver = "cg" /\ pc = "alpha" /\ k = 1
  /\ x0 # ZeroVec /\ x # x0 /\ alpha # Zero
  /\ r # ZeroVec /\ r # VecSub(b, action_A(ui, bcdofs, x0).y)

\* ---- a sequence of solves on one KSP object -----------------------------
\* solver.solve(bb, uh.vector) with the right-hand side the caller passes and
\* a zero uh.vector; the solver keeps its convergence history between solves,
\* setConvergenceHistory() having been called with reset left at False
Ksp_solve ==
  /\ pc = "idle"
  /\ \E bL \in Loads, rt \in KspRtols, mi \in 0 .. MaxIter :
       LET bb == lifting(bL, bcdofs).b
       IN /\ Assign(CG_solve_entry([St EXCEPT !.b = bb], bcdofs, ZeroVec,
                                   rt, mi))
          /\ b_entry' = bb
  /\ UNCHANGED <<bcdofs, phase, first, dist_vars, obj_vars>>

NextKsp ==
  \/ Ksp_solve \/ Ksp_converged \/ Ksp_alpha \/ Ksp_update
  \/ NextCall

SpecKsp == Init /\ [][NextKsp]_vars

\* C19: whenever the converged callback runs in a solve on the KSP object,
\* the reference it reads as the first entry of the convergence history is
\* the residual norm at iteration 0 of the solve in progress.
C19_ReferenceIsOwnInitialResidual ==
  [][(solver = "ksp" /\ pc = "converged") => res_hist'[1] = r0_norm2]_vars

\* ---- the lifecycle of the CG plugin object ------------------------------
\* the number of setUp callbacks followed
MaxSetUp == 3

\* the vectors one CG.setUp makes: two work vectors, then p and y
VecsPerSetUp == 4

\* CustomKSP.create: self.vectors = []
\* has: the attribute self.vectors exists; vectors: the list it holds;
\* made: how many vectors have been made so far (they are numbered 1, 2, ...);
\* destroyed: the vectors v.destroy() was called on; twice: those it was
\* called on again; ready: a setUp has run with no reset since;
\* last, error: the last callback and the exception it ended with;
\* unpacked: the length of the list the last solve unpacked
CustomKSP_create(pl) ==
  [state |-> "created", has |-> TRUE, vectors |-> <<>>, made |-> 0,
   destroyed |-> {}, twice |-> {}, ready |-> FALSE, last |-> "create",
   error |-> "none", unpacked |-> 0]

\* for v in self.vectors: v.destroy()
DestroyEach(pl) ==
  LET vs == {pl.vectors[j] : j \in 1 .. Len(pl.vectors)}
  IN [pl EXCEPT !.twice = pl.twice \cup (vs \cap pl.destroyed),
                !.destroyed = pl.destroyed \cup vs]

\* CustomKSP.destroy
CustomKSP_destroy(pl) ==
  IF ~pl.has
  THEN [pl EXCEPT !.last = "destroy", !.error = "AttributeError"]
  ELSE [DestroyEach(pl) EXCEPT !.last = "destroy", !.error = "none"]

\* CustomKSP.setUp: self.vectors = ksp.getWorkVecs(right=2, left=None)
CustomKSP_setUp(pl) ==
  [pl EXCEPT !.has = TRUE, !.vectors = <<pl.made + 1, pl.made + 2>>,
             !.made = pl.made + 2]

\* CG.setUp: super().setUp(ksp); p = self.vectors[0].duplicate();
\* y = p.duplicate(); self.vectors += [p, y]
CG_setUp(pl) ==
  LET s1 == CustomKSP_setUp(pl)
  IN [s1 EXCEPT !.vectors = s1.vectors \o <<s1.made + 1, s1.made + 2>>,
                !.made = s1.made + 2, !.ready = TRUE, !.last = "setUp",
                !.error = "none"]

\* CustomKSP.reset: destroy each vector, then del self.vectors
CustomKSP_reset(pl) ==
  IF ~pl.has
  THEN [pl EXCEPT !.ready = FALSE, !.last = "reset",
                  !.error = "AttributeError"]
  ELSE [DestroyEach(pl) EXCEPT !.has = FALSE, !.vectors = <<>>,
                               !.ready = FALSE, !.last = "reset",
                               !.error = "none"]

\* CG.solve: r, _, p, y = self.vectors
CG_solve_unpack(pl) ==
  IF ~pl.has
  THEN [pl EXCEPT !.last = "solve", !.error = "AttributeError"]
  ELSE [pl EXCEPT !.last = "solve", !.unpacked = Len(pl.vectors),
                  !.error = IF Len(pl.vectors) = VecsPerSetUp THEN "none"
                            ELSE "ValueError"]

\* the session as the lifting of a zero load left it; the plugin not yet made
InitPlugin ==
  /\ Init
  /\ bcdofs = {1}
  /\ b = lifting(ZeroVec, bcdofs).b

PluginFrame ==
  UNCHANGED <<bcdofs, b_entry, solve_vars, phase, first, dist_vars, shell>>

\* solver.setPythonContext(CG()) calls create on the new object
Plugin_create ==
  /\ plugin.state = "none"
  /\ plugin' = CustomKSP_create(plugin)
  /\ PluginFrame

Plugin_setUp ==
  /\ plugin.state = "created"
  /\ plugin.made + VecsPerSetUp <= VecsPerSetUp * MaxSetUp
  /\ plugin' = CG_setUp(plugin)
  /\ PluginFrame

\* the solver calls solve only after a setUp with no reset since
Plugin_solve ==
  /\ plugin.state = "created" /\ plugin.ready
  /\ plugin' = CG_solve_unpack(plugin)
  /\ PluginFrame

Plugin_reset ==
  /\ plugin.state = "created"
  /\ plugin' = CustomKSP_reset(plugin)
  /\ PluginFrame

Plugin_destroy ==
  /\ plugin.state = "created"
  /\ plugin' = CustomKSP_destroy(plugin)
  /\ PluginFrame

NextPlugin ==
  \/ Plugin_create \/ Plugin_setUp \/ Plugin_solve
  \/ Plugin_reset \/ Plugin_destroy

SpecPlugin == InitPlugin /\ [][NextPlugin]_vars

\* C20: after create, whatever callbacks follow, none reads self.vectors
\* while the attribute is absent, no vector has destroy called on it twice,
\* and every solve finds exactly four vectors in the list.
C20_LifecycleSafe ==
  plugin.state = "created" =>
    /\ plugin.error # "AttributeError"
    /\ plugin.twice = {}
    /\ (plugin.last = "solve" => plugin.unpacked = VecsPerSetUp)

====
